---- MODULE Spec2Model ----
(***************************************************************************)
(* Model of the sentiment-classification training pipeline of              *)
(* src/sample/training.py: Loader, DataCleaner, TextPreprocessor,          *)
(* DataSplitter, SentimentDataset, Model, Trainer and main.                *)
(*                                                                         *)
(* A table (pandas DataFrame) is a sequence of rows; a row carries its     *)
(* index label idx and the two columns text and sentiment.  A missing      *)
(* field is the value NaN.  Split fractions are floats, modelled as        *)
(* integer numerators over Denom.                                          *)
(***************************************************************************)
EXTENDS Integers, Sequences, FiniteSets

VARIABLES pc, config, csv, data, calls, splitter, main, files, trainer,
          loaders, loop, console, error

vars == <<pc, config, csv, data, calls, splitter, main, files, trainer,
          loaders, loop, console, error>>

(* ---------------------------- bounds ----------------------------------- *)
MaxRows == 3          \* rows of the dataset file read by main
MaxCleanRows == 3     \* rows of a table handed to clean_data directly
MaxSplitRows == 5     \* rows of a table handed to split_data directly
MaxTrain == 3         \* rows of the train partition handed to Trainer
MaxEval == 2          \* rows of the val / test partition handed to Trainer
MaxEpochs == 2        \* training.epochs
MaxCalls == 2         \* direct calls of clean_data on the same table

(* ------------------------- program constants --------------------------- *)
Denom == 5            \* fractions are k/Denom
BatchSize == 2
SampleLimit == 5

NaN == "NaN"

label_encoder == [positive |-> 0, negative |-> 1, neutral |-> 2]
Classes == {0, 1, 2}

TrainFile == "dataset.training.hdf5"
TestFile == "dataset.test.hdf5"
ValidationFile == "dataset.validation.hdf5"
ModelFile == "models/trained_model.pt"
FileNames == {TrainFile, TestFile, ValidationFile, ModelFile}

(* ----------------------------- helpers --------------------------------- *)
Min(a, b) == IF a < b THEN a ELSE b

Perms(n) == {p \in [1..n -> 1..n] : \A i, j \in 1..n : p[i] = p[j] => i = j}

RECURSIVE SelectIdx(_, _, _)
\* the subsequence of s at the positions i >= from for which keep[i] holds
SelectIdx(s, keep, from) ==
    IF from > Len(s) THEN << >>
    ELSE IF keep[from] THEN <<s[from]>> \o SelectIdx(s, keep, from + 1)
    ELSE SelectIdx(s, keep, from + 1)

Content(row) == <<row.text, row.sentiment>>

\* the records of a table as a multiset, index labels forgotten
RowBag(t) ==
    LET vals == {Content(t[i]) : i \in DOMAIN t}
    IN [v \in vals |-> Cardinality({i \in DOMAIN t : Content(t[i]) = v})]

IdxSet(t) == {t[i].idx : i \in DOMAIN t}

Column(t, c) == [i \in DOMAIN t |-> IF c = "text" THEN t[i].text ELSE t[i].sentiment]

\* read_csv: rows labelled 0..n-1 in file order
Records(texts, sents) == [text : texts, sentiment : sents]

TablesOver(recs, maxLen) ==
    UNION {{[i \in 1..n |-> [idx |-> i - 1, text |-> f[i].text, sentiment |-> f[i].sentiment]] :
              f \in [1..n -> recs]} : n \in 0..maxLen}

(* --------------------------- DataCleaner ------------------------------- *)
HasMissing(row) == row.text = NaN \/ row.sentiment = NaN

dropna(t) == SelectIdx(t, [i \in DOMAIN t |-> ~HasMissing(t[i])], 1)

\* keep='first': a row goes when an earlier row has the same column values
drop_duplicates_once(t) ==
    LET dups == {i \in DOMAIN t : \E j \in 1..(i - 1) : Content(t[j]) = Content(t[i])}
        last == IF dups = {} THEN 0 ELSE CHOOSE i \in dups : \A j \in dups : j <= i
    IN SelectIdx(t, [i \in DOMAIN t |-> i # last], 1)

drop_duplicates(t) ==
    SelectIdx(t, [i \in DOMAIN t |->
                    ~\E j \in 1..(i - 1) : Content(t[j]) = Content(t[i])], 1)

clean_data(t) == drop_duplicates(dropna(t))

(* --------------------------- TextPreprocessor -------------------------- *)
\* str.lower on the text values of the model
lower(text) == IF text = "Hi" THEN "hi" ELSE text

\* lower_case is the only step that changes a text of the model ("Hi", "hi",
\* "meh"): they hold no punctuation and tokenize to themselves
preprocess_text(cfg, text) == IF cfg.lower_case THEN lower(text) ELSE text

\* tokenize_text raises ValueError for a method other than word and
\* sentence; it runs once per row
TokenizeFails(cfg, t) == Len(t) > 0 /\ cfg.method \notin {"word", "sentence"}

preprocess_dataset(cfg, t) ==
    [i \in DOMAIN t |-> [t[i] EXCEPT !.text = preprocess_text(cfg, t[i].text)]]

(* ----------------------------- DataSplitter ---------------------------- *)
AllPerms == [n \in 0..(MaxSplitRows + MaxTrain + MaxEval + MaxRows) |-> Perms(n)]

\* data.sample(frac=1).reset_index(drop=True): any order, labels 0..n-1 anew
Shuffles(t) ==
    {[i \in DOMAIN t |-> [t[p[i]] EXCEPT !.idx = i - 1]] : p \in AllPerms[Len(t)]}

\* a float test_size is accepted when 0 < num/den < 1 (den > 0 where used)
InUnit(num, den) == den > 0 /\ 0 < num /\ num < den

\* n_test = ceil(test_size * n_samples), for 0 < num/den < 1.  For the
\* fractions of the model (k/Denom with k in SplitFracs or MainFracs) and
\* fewer than 12 rows the float product rounds to the exact ceiling.
NTest(n, num, den) == (n * num + den - 1) \div den

\* train_test_split raises ValueError for a test_size outside (0, 1) and
\* when n_train = n - n_test is 0
SplitFails(n, num, den) == ~InUnit(num, den) \/ n - NTest(n, num, den) = 0

\* a split whose train part starts one row early, inside the test part
train_test_split_overlap(t, num, den) ==
    IF SplitFails(Len(t), num, den) THEN {}
    ELSE LET k == NTest(Len(t), num, den)
         IN {[test |-> [i \in 1..k |-> t[p[i]]],
              train |-> [i \in 1..(Len(t) - k) |-> t[p[k + i - 1]]]] :
               p \in AllPerms[Len(t)]}

\* train_test_split(t, test_size = num/den): the first n_test rows of a
\* random permutation are the test part, the next n_train the train part
train_test_split(t, num, den) ==
    IF SplitFails(Len(t), num, den) THEN {}
    ELSE LET k == NTest(Len(t), num, den)
         IN {[test |-> [i \in 1..k |-> t[p[i]]],
              train |-> [i \in 1..(Len(t) - k) |-> t[p[k + i]]]] :
               p \in AllPerms[Len(t)]}

save_hdf5(f, sp) ==
    [f EXCEPT ![TrainFile] = Append(@, [key |-> "train", table |-> sp.train_data]),
              ![TestFile] = Append(@, [key |-> "test", table |-> sp.test_data]),
              ![ValidationFile] = Append(@, [key |-> "validation", table |-> sp.validation_data])]

\* line 103 divides by test + validation
SplitZeroDivision ==
    /\ config.test + config.validation = 0
    /\ error' = "ZeroDivisionError"
    /\ UNCHANGED <<splitter, files, main>>

\* line 110 raises
SplitFirstFails ==
    /\ config.test + config.validation # 0
    /\ SplitFails(Len(data), config.test + config.validation, Denom)
    /\ error' = "ValueError"
    /\ UNCHANGED <<splitter, files, main>>

\* line 113 raises: train_data is assigned, nothing is saved
SplitSecondFails ==
    /\ config.test + config.validation # 0
    /\ \E sh \in Shuffles(data) :
         \E s1 \in train_test_split(sh, config.test + config.validation, Denom) :
           /\ SplitFails(Len(s1.test), config.test, config.test + config.validation)
           /\ splitter' = [splitter EXCEPT !.train_data = s1.train]
    /\ error' = "ValueError"
    /\ UNCHANGED <<files, main>>

\* the partition roles of the second split: its train part, its test part
SecondSplitRoles(s2) == [test_data |-> s2.train, validation_data |-> s2.test]

\* lines 110-117 without an exception: the two-stage split, the three
\* snapshot files, the fields the returned tuple is read from
SplitReturns ==
    /\ config.test + config.validation # 0
    /\ \E sh \in Shuffles(data) :
         \E s1 \in train_test_split(sh, config.test + config.validation, Denom) :
           \E s2 \in train_test_split(s1.test, config.test,
                                      config.test + config.validation) :
             splitter' = [train_data |-> s1.train,
                          test_data |-> SecondSplitRoles(s2).test_data,
                          validation_data |-> SecondSplitRoles(s2).validation_data]
    /\ files' = save_hdf5(files, splitter')
    /\ error' = error

\* return self.train_data, self.test_data, self.validation_data
Returned(sp) == <<sp.train_data, sp.test_data, sp.validation_data>>

(* -------------------- SentimentDataset, DataLoader --------------------- *)
LabelNaN == -1        \* stands for the float nan in a list of label indices

\* Series.map(label_encoder): nan for a sentiment that is no key
MapLabel(s) == IF s \in DOMAIN label_encoder THEN label_encoder[s] ELSE LabelNaN

SentimentDataset(t) ==
    [texts |-> Column(t, "text"),
     labels |-> [i \in DOMAIN t |-> MapLabel(t[i].sentiment)]]

\* __getitem__: torch.tensor(nan, dtype=torch.long) raises
ItemFails(ds, i) == ds.labels[i] = LabelNaN

GetItem(ds, i) == [text |-> ds.texts[i], label |-> ds.labels[i]]

DataLoader(ds, shuffle) == [dataset |-> ds, shuffle |-> shuffle]

DatasetLen(dl) == Len(dl.dataset.texts)

\* a loader that drops the last, partial batch
NumBatchesFloor(dl) == DatasetLen(dl) \div BatchSize

\* len(dataloader): the number of batches
NumBatches(dl) == (DatasetLen(dl) + BatchSize - 1) \div BatchSize

\* the sampler: a fresh random order of the positions, or 1..n in order
Orders(dl) ==
    IF dl.shuffle THEN AllPerms[DatasetLen(dl)]
    ELSE {[i \in 1..DatasetLen(dl) |-> i]}

\* the dataset positions of batch b (1-based) of an iteration in this order
BatchItems(order, b) ==
    [j \in 1..(Min(b * BatchSize, Len(order)) - (b - 1) * BatchSize) |->
       order[(b - 1) * BatchSize + j]]

val_shuffled(tr) == DataLoader(SentimentDataset(tr.val_data), TRUE)

val_dataloader(tr) == DataLoader(SentimentDataset(tr.val_data), FALSE)

test_dataloader(tr) == DataLoader(SentimentDataset(tr.test_data), FALSE)

prepare_dataloaders(tr) ==
    [train |-> DataLoader(SentimentDataset(tr.train_data), TRUE),
     val |-> val_dataloader(tr),
     test |-> test_dataloader(tr)]

(* -------------------------------- Model -------------------------------- *)
\* the texts and labels read off a dataset, item by item (lines 187-188,
\* 283-284); reading raises when an item does
ReadFails(ds) == \E i \in DOMAIN ds.texts : ItemFails(ds, i)

ItemTexts(ds) == [i \in DOMAIN ds.texts |-> GetItem(ds, i).text]

ItemLabels(ds) == [i \in DOMAIN ds.texts |-> GetItem(ds, i).label]

\* evaluate: one prediction per item the loader yields, in the loader's
\* order; the predicted class is whatever the network computes
evaluate(dl, texts, true_labels) ==
    {[texts |-> texts,
      true_labels |-> true_labels,
      pred_labels |-> [j \in 1..Len(order) |-> [item |-> order[j], class |-> cls[j]]]] :
        order \in Orders(dl), cls \in [1..DatasetLen(dl) -> Classes]}

\* the sample triples printed by evaluate: up to 5
Samples(report) ==
    [i \in 1..Min(SampleLimit, Len(report.texts)) |->
       <<report.texts[i], report.true_labels[i], report.pred_labels[i].class>>]

(* ------------------------------ Trainer.run ---------------------------- *)
Loop0 == [epoch |-> 0, order |-> << >>, batch |-> 0, steps |-> 0, visited |-> << >>]

\* lines 276-277: the model wrapper and the three loaders
RunStart ==
    /\ pc = "run"
    /\ loaders' = prepare_dataloaders(trainer)
    /\ loop' = Loop0
    /\ pc' = "epoch"
    /\ UNCHANGED <<config, csv, data, calls, splitter, main, files, trainer, console, error>>

\* line 168-172: an epoch starts, the train loader draws its order
EpochBegin ==
    /\ pc = "epoch"
    /\ loop.epoch < config.epochs
    /\ \E order \in Orders(loaders.train) :
         loop' = [loop EXCEPT !.order = order, !.batch = 0, !.visited = << >>]
    /\ pc' = "batch"
    /\ UNCHANGED <<config, csv, data, calls, splitter, main, files, trainer, loaders,
                   console, error>>

\* lines 172-181: the next batch is fetched and one optimizer step is taken
TrainStep ==
    /\ pc = "batch"
    /\ loop.batch < NumBatches(loaders.train)
    /\ LET items == BatchItems(loop.order, loop.batch + 1)
       IN /\ \A j \in DOMAIN items : ~ItemFails(loaders.train.dataset, items[j])
          /\ loop' = [loop EXCEPT !.batch = @ + 1, !.steps = @ + 1,
                                  !.visited = @ \o items]
    /\ UNCHANGED <<pc, config, csv, data, calls, splitter, main, files, trainer,
                   loaders, console, error>>

\* fetching the next batch raises on an item whose label is nan
TrainStepFails ==
    /\ pc = "batch"
    /\ loop.batch < NumBatches(loaders.train)
    /\ LET items == BatchItems(loop.order, loop.batch + 1)
       IN \E j \in DOMAIN items : ItemFails(loaders.train.dataset, items[j])
    /\ pc' = "aborted"
    /\ error' = "RuntimeError"
    /\ UNCHANGED <<config, csv, data, calls, splitter, main, files, trainer, loaders,
                   loop, console>>

\* line 183: the epoch's loss is printed
EpochEnd ==
    /\ pc = "batch"
    /\ loop.batch = NumBatches(loaders.train)
    /\ loop' = [loop EXCEPT !.epoch = @ + 1]
    /\ pc' = "epoch"
    /\ UNCHANGED <<config, csv, data, calls, splitter, main, files, trainer, loaders,
                   console, error>>

\* lines 186-189: after the last epoch, evaluation on the validation loader
TrainValidate ==
    /\ pc = "epoch"
    /\ loop.epoch >= config.epochs
    /\ NumBatches(loaders.val) > 0
    /\ ~ReadFails(loaders.val.dataset)
    /\ \E report \in evaluate(loaders.val, ItemTexts(loaders.val.dataset),
                              ItemLabels(loaders.val.dataset)) :
         console' = Append(console, report)
    /\ pc' = "test"
    /\ UNCHANGED <<config, csv, data, calls, splitter, main, files, trainer, loaders,
                   loop, error>>

TrainValidateFails ==
    /\ pc = "epoch"
    /\ loop.epoch >= config.epochs
    /\ NumBatches(loaders.val) > 0
    /\ ReadFails(loaders.val.dataset)
    /\ pc' = "aborted"
    /\ error' = "RuntimeError"
    /\ UNCHANGED <<config, csv, data, calls, splitter, main, files, trainer, loaders,
                   loop, console>>

\* line 186: an empty validation loader is falsy
TrainSkipsValidation ==
    /\ pc = "epoch"
    /\ loop.epoch >= config.epochs
    /\ NumBatches(loaders.val) = 0
    /\ pc' = "test"
    /\ UNCHANGED <<config, csv, data, calls, splitter, main, files, trainer, loaders,
                   loop, console, error>>

\* lines 283-285: evaluation on the test loader
TestEvaluate ==
    /\ pc = "test"
    /\ ~ReadFails(loaders.test.dataset)
    /\ \E report \in evaluate(loaders.test, ItemTexts(loaders.test.dataset),
                              ItemLabels(loaders.test.dataset)) :
         console' = Append(console, report)
    /\ pc' = "done"
    /\ UNCHANGED <<config, csv, data, calls, splitter, main, files, trainer, loaders,
                   loop, error>>

TestEvaluateFails ==
    /\ pc = "test"
    /\ ReadFails(loaders.test.dataset)
    /\ pc' = "aborted"
    /\ error' = "RuntimeError"
    /\ UNCHANGED <<config, csv, data, calls, splitter, main, files, trainer, loaders,
                   loop, console>>

(* --------------------------------- main -------------------------------- *)
\* line 299: read_csv
LoadDataset ==
    /\ pc = "load"
    /\ data' = csv
    /\ pc' = "clean"
    /\ UNCHANGED <<config, csv, calls, splitter, main, files, trainer, loaders, loop,
                   console, error>>

\* line 303
CleanData ==
    /\ pc = "clean"
    /\ data' = clean_data(data)
    /\ pc' = "preprocess"
    /\ UNCHANGED <<config, csv, calls, splitter, main, files, trainer, loaders, loop,
                   console, error>>

\* line 310
PreprocessDataset ==
    /\ pc = "preprocess"
    /\ ~TokenizeFails(config, data)
    /\ data' = preprocess_dataset(config, data)
    /\ pc' = "split"
    /\ UNCHANGED <<config, csv, calls, splitter, main, files, trainer, loaders, loop,
                   console, error>>

PreprocessFails ==
    /\ pc = "preprocess"
    /\ TokenizeFails(config, data)
    /\ pc' = "aborted"
    /\ error' = "ValueError"
    /\ UNCHANGED <<config, csv, data, calls, splitter, main, files, trainer, loaders,
                   loop, console>>

\* line 314: train_data, val_data, test_data = splitter.split_data(data)
Unpack(r) == [train_data |-> r[1], val_data |-> r[2], test_data |-> r[3]]

MainSplitZeroDivision ==
    /\ pc = "split"
    /\ SplitZeroDivision
    /\ pc' = "aborted"
    /\ UNCHANGED <<config, csv, data, calls, trainer, loaders, loop, console>>

MainSplitFirstFails ==
    /\ pc = "split"
    /\ SplitFirstFails
    /\ pc' = "aborted"
    /\ UNCHANGED <<config, csv, data, calls, trainer, loaders, loop, console>>

MainSplitSecondFails ==
    /\ pc = "split"
    /\ SplitSecondFails
    /\ pc' = "aborted"
    /\ UNCHANGED <<config, csv, data, calls, trainer, loaders, loop, console>>

MainSplit ==
    /\ pc = "split"
    /\ SplitReturns
    /\ main' = Unpack(Returned(splitter'))
    /\ pc' = "trainer"
    /\ UNCHANGED <<config, csv, data, calls, trainer, loaders, loop, console>>

\* line 327: Trainer(config, train_data, val_data, test_data)
TrainerInit ==
    /\ pc = "trainer"
    /\ trainer' = [train_data |-> main.train_data, val_data |-> main.val_data,
                   test_data |-> main.test_data]
    /\ pc' = "run"
    /\ UNCHANGED <<config, csv, data, calls, splitter, main, files, loaders, loop,
                   console, error>>

(* --------------------- direct calls of the classes --------------------- *)
\* DataCleaner.clean_data called on a table, and called again on its result
CallCleanData ==
    /\ pc = "call_clean_data"
    /\ calls < MaxCalls
    /\ data' = clean_data(data)
    /\ calls' = calls + 1
    /\ UNCHANGED <<pc, config, csv, splitter, main, files, trainer, loaders, loop,
                   console, error>>

CallSplitZeroDivision ==
    /\ pc = "call_split_data"
    /\ SplitZeroDivision
    /\ pc' = "raised"
    /\ UNCHANGED <<config, csv, data, calls, trainer, loaders, loop, console>>

CallSplitFirstFails ==
    /\ pc = "call_split_data"
    /\ SplitFirstFails
    /\ pc' = "raised"
    /\ UNCHANGED <<config, csv, data, calls, trainer, loaders, loop, console>>

CallSplitSecondFails ==
    /\ pc = "call_split_data"
    /\ SplitSecondFails
    /\ pc' = "raised"
    /\ UNCHANGED <<config, csv, data, calls, trainer, loaders, loop, console>>

CallSplitData ==
    /\ pc = "call_split_data"
    /\ SplitReturns
    /\ pc' = "returned"
    /\ UNCHANGED <<config, csv, data, calls, main, trainer, loaders, loop, console>>

(* ------------------------------ initial states ------------------------- *)
None3 == [train_data |-> << >>, test_data |-> << >>, validation_data |-> << >>]

NoPartitions == [train_data |-> << >>, val_data |-> << >>, test_data |-> << >>]

NoLoaders == prepare_dataloaders(NoPartitions)

Configs(fracs, epochs, flags, methods) ==
    [train : fracs, test : fracs, validation : fracs, epochs : epochs,
     lower_case : flags, method : methods]

MainFracs == {0, 1}
SplitFracs == {-1, 0, 1, 3}

\* the records of the dataset file read by main
MainRecords ==
    {[text |-> "Hi", sentiment |-> "positive"],
     [text |-> "hi", sentiment |-> "positive"],
     [text |-> "meh", sentiment |-> "neutral"],
     [text |-> "meh", sentiment |-> "mixed"],
     [text |-> NaN, sentiment |-> "negative"]}

\* tables handed to split_data directly: equal records but for the last row
SplitTables ==
    {t \in TablesOver(Records({"hi"}, {"positive", "neutral"}), MaxSplitRows) :
       \A i \in 1..(Len(t) - 1) : t[i].sentiment = "positive"}

\* partitions handed to Trainer directly: text by position, any sentiment
\* of the two
TrainerTables(minLen, maxLen) ==
    {t \in TablesOver(Records({"hi", "meh"}, {"negative", "mixed"}), maxLen) :
       /\ Len(t) >= minLen
       /\ \A i \in DOMAIN t : t[i].text = (IF i % 2 = 1 THEN "hi" ELSE "meh")}

\* main() on any dataset file and configuration
Init ==
    /\ pc = "load"
    /\ config \in Configs(MainFracs, 0..MaxEpochs, BOOLEAN, {"word", "char"})
    /\ csv \in TablesOver(MainRecords, MaxRows)
    /\ data = << >>
    /\ calls = 0
    /\ splitter = None3
    /\ main = NoPartitions
    /\ files = [f \in FileNames |-> << >>]
    /\ trainer = NoPartitions
    /\ loaders = NoLoaders
    /\ loop = Loop0
    /\ console = << >>
    /\ error = "none"

Next ==
    \/ LoadDataset \/ CleanData \/ PreprocessDataset \/ PreprocessFails
    \/ MainSplitZeroDivision \/ MainSplitFirstFails \/ MainSplitSecondFails
    \/ MainSplit \/ TrainerInit
    \/ RunStart \/ EpochBegin \/ TrainStep \/ TrainStepFails \/ EpochEnd
    \/ TrainValidate \/ TrainValidateFails
    \/ TestEvaluate \/ TestEvaluateFails

Spec == Init /\ [][Next]_vars

\* DataCleaner.clean_data on any table (kept in csv), called up to MaxCalls times
InitClean ==
    /\ pc = "call_clean_data"
    /\ config \in Configs({1}, {1}, {FALSE}, {"word"})
    /\ csv \in TablesOver(Records({"Hi", "hi", NaN}, {"positive", NaN}), MaxCleanRows)
    /\ data = csv
    /\ calls = 0
    /\ splitter = None3
    /\ main = NoPartitions
    /\ files = [f \in FileNames |-> << >>]
    /\ trainer = NoPartitions
    /\ loaders = NoLoaders
    /\ loop = Loop0
    /\ console = << >>
    /\ error = "none"

NextClean == CallCleanData

SpecClean == InitClean /\ [][NextClean]_vars

\* DataSplitter.split_data on any table and any split fractions
InitSplit ==
    /\ pc = "call_split_data"
    /\ config \in Configs(SplitFracs, {1}, {FALSE}, {"word"})
    /\ csv = << >>
    /\ data \in SplitTables
    /\ calls = 0
    /\ splitter = None3
    /\ main = NoPartitions
    /\ files = [f \in FileNames |-> << >>]
    /\ trainer = NoPartitions
    /\ loaders = NoLoaders
    /\ loop = Loop0
    /\ console = << >>
    /\ error = "none"

NextSplit ==
    \/ CallSplitZeroDivision \/ CallSplitFirstFails \/ CallSplitSecondFails
    \/ CallSplitData

SpecSplit == InitSplit /\ [][NextSplit]_vars

\* Trainer(config, train, val, test).run() on any three partitions
InitTrainer ==
    /\ pc = "run"
    /\ config \in Configs({1}, 0..MaxEpochs, {FALSE}, {"word"})
    /\ csv = << >>
    /\ data = << >>
    /\ calls = 0
    /\ splitter = None3
    /\ main = NoPartitions
    /\ files = [f \in FileNames |-> << >>]
    /\ trainer \in [train_data : TrainerTables(1, MaxTrain),
                    val_data : TrainerTables(0, MaxEval),
                    test_data : TrainerTables(1, MaxEval)]
    /\ loaders = NoLoaders
    /\ loop = Loop0
    /\ console = << >>
    /\ error = "none"

NextTrainer ==
    \/ RunStart \/ EpochBegin \/ TrainStep \/ TrainStepFails \/ EpochEnd
    \/ TrainValidate \/ TrainValidateFails \/ TrainSkipsValidation
    \/ TestEvaluate \/ TestEvaluateFails

SpecTrainer == InitTrainer /\ [][NextTrainer]_vars

(* ============================== properties ============================= *)
Abs(x) == IF x < 0 THEN -x ELSE x

NoFiles == [f \in FileNames |-> << >>]

(* C8: clean_data is idempotent: the table after a second call equals the  *)
(* table after the first call, clean_data of the original table; that      *)
(* table has no record with a missing field and no two equal records.      *)
CleanIdempotent ==
    calls >= 1 =>
      /\ data = clean_data(csv)
      /\ \A i \in DOMAIN data : ~HasMissing(data[i])
      /\ \A i, j \in DOMAIN data : Content(data[i]) = Content(data[j]) => i = j

\* a table with a missing field and with duplicates has been cleaned twice
CleanIdempotentWitness ==
    /\ calls = MaxCalls
    /\ \E i \in DOMAIN csv : HasMissing(csv[i])
    /\ Len(data) < Len(dropna(csv))
    /\ Len(data) >= 1

(* C1: when split_data returns, the three partitions are pairwise disjoint *)
(* (no index label in two of them), cover every row of the shuffled table, *)
(* and together hold the input's records as a multiset.                    *)
PartitionExact ==
    pc = "returned" =>
      /\ IdxSet(splitter.train_data) \cap IdxSet(splitter.test_data) = {}
      /\ IdxSet(splitter.train_data) \cap IdxSet(splitter.validation_data) = {}
      /\ IdxSet(splitter.test_data) \cap IdxSet(splitter.validation_data) = {}
      /\ IdxSet(splitter.train_data) \cup IdxSet(splitter.test_data)
           \cup IdxSet(splitter.validation_data) = 0..(Len(data) - 1)
      /\ Len(splitter.train_data) + Len(splitter.test_data)
           + Len(splitter.validation_data) = Len(data)
      /\ RowBag(splitter.train_data \o splitter.test_data \o splitter.validation_data)
           = RowBag(data)

\* a split of the largest table, with two different records, has returned
PartitionExactWitness ==
    /\ pc = "returned"
    /\ Len(data) = MaxSplitRows
    /\ Cardinality(DOMAIN RowBag(data)) = 2
    /\ Len(splitter.validation_data) >= 2

(* C2: in a full run the final evaluation works on the partition the       *)
(* splitter holds and saved as test, the validation inside train on the    *)
(* partition it holds and saved as validation.                             *)
RolesKept ==
    pc = "done" =>
      /\ trainer.test_data = splitter.test_data
      /\ trainer.val_data = splitter.validation_data
      /\ files[TestFile] = <<[key |-> "test", table |-> trainer.test_data]>>
      /\ files[ValidationFile] = <<[key |-> "validation", table |-> trainer.val_data]>>
      /\ loaders.test.dataset = SentimentDataset(splitter.test_data)
      /\ loaders.val.dataset = SentimentDataset(splitter.validation_data)

(* C3: with test > 0 and validation > 0, the rows left after the train set *)
(* are divided so that the test partition (and its file) and the           *)
(* validation partition have sizes in the ratio test : validation, within  *)
(* one record.                                                             *)
TestValidationRatio ==
    (pc = "returned" /\ config.train >= 0 /\ config.test > 0 /\ config.validation > 0) =>
      LET rem == Len(splitter.test_data) + Len(splitter.validation_data)
          sum == config.test + config.validation
      IN /\ Abs(Len(splitter.test_data) * sum - rem * config.test) <= sum
         /\ Abs(Len(splitter.validation_data) * sum - rem * config.validation) <= sum
         /\ files[TestFile] = <<[key |-> "test", table |-> splitter.test_data]>>

(* C4: for non-negative fractions with train + test + validation > 0,      *)
(* split_data produces a train set whose share of the records is train /   *)
(* (train + test + validation), within one record (stated for tables of 5  *)
(* rows and more, where no part of a normalised split is empty).           *)
TrainShare ==
    (/\ pc \in {"returned", "raised"}
     /\ Len(data) >= 5
     /\ config.train >= 0 /\ config.test >= 0 /\ config.validation >= 0
     /\ config.train + config.test + config.validation > 0) =>
      LET sum == config.train + config.test + config.validation
      IN /\ pc = "returned"
         /\ Abs(Len(splitter.train_data) * sum - Len(data) * config.train) <= sum

(* C5: split_data fails whenever a fraction is negative or the fractions   *)
(* sum to zero (whatever exception it raises is taken for the config       *)
(* error); then no partition is produced and no snapshot file is written,  *)
(* and it never returns partitions.                                        *)
InvalidFractionsRejected ==
    (/\ pc \in {"returned", "raised"}
     /\ \/ config.train < 0 \/ config.test < 0 \/ config.validation < 0
        \/ config.train + config.test + config.validation = 0) =>
      /\ pc = "raised"
      /\ error # "none"
      /\ splitter = None3
      /\ files = NoFiles

UnknownLabelIn(t) == \E i \in DOMAIN t : t[i].sentiment \notin DOMAIN label_encoder

(* C6: when a record of the train, validation or test partition has a      *)
(* sentiment that is no key of the label encoder, the run aborts before    *)
(* any training step or evaluation (whatever exception is raised is taken  *)
(* for the unknown-label error).                                           *)
UnknownLabelAborts ==
    (\/ UnknownLabelIn(trainer.train_data) \/ UnknownLabelIn(trainer.val_data)
     \/ UnknownLabelIn(trainer.test_data)) =>
      /\ pc # "done"
      /\ loop.steps = 0
      /\ console = << >>

(* C7: a full run that completes has written the model artifact exactly    *)
(* once.                                                                   *)
ModelSavedOnce ==
    pc = "done" => Len(files[ModelFile]) = 1

(* C9: train takes one optimizer step per batch and visits every training  *)
(* item exactly once per epoch, E * B steps in all; evaluation on the      *)
(* validation loader runs once, after the last step, when the loader is    *)
(* not empty; no evaluation runs between steps; the test evaluation runs   *)
(* after train has returned.                                               *)
TrainSchedule ==
    LET B == (Len(trainer.train_data) + BatchSize - 1) \div BatchSize
        nVal == IF Len(trainer.val_data) > 0 THEN 1 ELSE 0
    IN /\ pc \in {"epoch", "batch"} => console = << >>
       /\ pc = "epoch" => loop.steps = loop.epoch * B
       /\ pc = "batch" =>
            /\ loop.epoch < config.epochs
            /\ loop.batch <= B
            /\ loop.steps = loop.epoch * B + loop.batch
            /\ loop.visited =
                 SubSeq(loop.order, 1, Min(loop.batch * BatchSize, Len(loop.order)))
            /\ loop.batch = B =>
                 \A i \in DOMAIN trainer.train_data :
                   Cardinality({j \in DOMAIN loop.visited : loop.visited[j] = i}) = 1
       /\ pc \in {"test", "done"} =>
            /\ loop.steps = config.epochs * B
            /\ loop.epoch = config.epochs
       /\ pc = "test" => Len(console) = nVal
       /\ pc = "done" => Len(console) = nVal + 1
       /\ (pc \in {"test", "done"} /\ nVal = 1) =>
            console[1].texts = Column(trainer.val_data, "text")
       /\ pc = "done" =>
            console[nVal + 1].texts = Column(trainer.test_data, "text")

\* a run of two epochs of two batches each, with validation, has completed
TrainScheduleWitness ==
    /\ pc = "done"
    /\ config.epochs = 2
    /\ NumBatches(loaders.train) = 2
    /\ loop.steps = 4
    /\ Len(console) = 2

\* the report of position k of the console is about this partition
AlignedWith(report, t) ==
    /\ Len(report.pred_labels) = Len(t)
    /\ Len(report.texts) = Len(t)
    /\ Len(report.true_labels) = Len(t)
    /\ \A i \in DOMAIN t :
         /\ report.pred_labels[i].item = i
         /\ report.texts[i] = t[i].text
         /\ report.true_labels[i] = label_encoder[t[i].sentiment]
    /\ \A i \in DOMAIN Samples(report) :
         Samples(report)[i] =
           <<t[i].text, label_encoder[t[i].sentiment], report.pred_labels[i].class>>

(* C10: in every evaluate call of the pipeline the prediction list has one *)
(* entry per record of the evaluated partition, and pred_labels[i],        *)
(* true_labels[i] and texts[i] belong to record i, as do the sample        *)
(* triples printed.                                                        *)
PredictionsAligned ==
    LET nVal == IF Len(trainer.val_data) > 0 THEN 1 ELSE 0
    IN /\ (Len(console) >= 1 /\ nVal = 1) => AlignedWith(console[1], trainer.val_data)
       /\ Len(console) = nVal + 1 => AlignedWith(console[nVal + 1], trainer.test_data)
       /\ Len(console) <= nVal + 1

\* both evaluations have run on partitions of two records or more
PredictionsAlignedWitness ==
    /\ pc = "done"
    /\ Len(console) = 2
    /\ Len(trainer.val_data) >= 2
    /\ Len(trainer.test_data) >= 2
    /\ console[1].pred_labels[1].class # console[1].pred_labels[2].class

====
